---- MODULE Spec2Model ----
(***************************************************************************)
(* Model of src/src/app.py: the article pipeline (ArticlesTranslator and   *)
(* article_translator_page) and the document pipeline (DocumentsTranslator *)
(* and document_translator_page).                                          *)
(*                                                                         *)
(* Texts are sequences of one-character strings.  A response of a remote   *)
(* service is a nondeterministic input of the step that receives it.       *)
(***************************************************************************)
EXTENDS Integers, Sequences, FiniteSets, TLC

VARIABLES pipeline, pc, file, text, request, resp, translation,
          download, error, logged, stages, nFetch, nPost, html

vars == <<pipeline, pc, file, text, request, resp, translation,
          download, error, logged, stages, nFetch, nPost, html>>

(* ------------------------------ bounds --------------------------------- *)
MaxParas == 2
MaxParaLen == 1
MaxRespLen == 2
MaxNodes == 4

(* ------------------------------ strings -------------------------------- *)
NL == "\n"
SP == " "

RECURSIVE StringsOver(_, _)
StringsOver(alphabet, n) ==
    IF n = 0 THEN {<<>>}
    ELSE LET shorter == StringsOver(alphabet, n - 1)
         IN  shorter \cup {Append(s, c) : s \in {t \in shorter : Len(t) = n - 1},
                                          c \in alphabet}

RECURSIVE SeqsUpTo(_, _)
SeqsUpTo(S, n) ==
    IF n = 0 THEN {<<>>}
    ELSE LET shorter == SeqsUpTo(S, n - 1)
         IN  shorter \cup {Append(s, x) : s \in {t \in shorter : Len(t) = n - 1},
                                          x \in S}

\* sep.join(parts)
RECURSIVE Join(_, _)
Join(sep, parts) ==
    IF parts = <<>> THEN <<>>
    ELSE IF Len(parts) = 1 THEN parts[1]
    ELSE parts[1] \o <<sep>> \o Join(sep, Tail(parts))

\* s.split(sep): always at least one segment, empty segments are kept
RECURSIVE Split(_, _)
Split(s, sep) ==
    IF s = <<>> THEN << <<>> >>
    ELSE LET rest == Split(Tail(s), sep)
         IN  IF Head(s) = sep
             THEN << <<>> >> \o rest
             ELSE << <<Head(s)>> \o rest[1] >> \o Tail(rest)

\* s.strip(): leading and trailing whitespace removed
RECURSIVE LStrip(_)
LStrip(s) == IF s /= <<>> /\ Head(s) = SP THEN LStrip(Tail(s)) ELSE s

RECURSIVE RStrip(_)
RStrip(s) ==
    IF s /= <<>> /\ s[Len(s)] = SP THEN RStrip(SubSeq(s, 1, Len(s) - 1)) ELSE s

Strip(s) == RStrip(LStrip(s))

\* code point of a character; every character used here is ASCII, so the
\* UTF-8 encoding of a string is the sequence of its code points
Ord(c) ==
    CASE c = NL  -> 10
      [] c = SP  -> 32
      [] c = "a" -> 97
      [] c = "e" -> 101
      [] c = "h" -> 104

Utf8(s) == [i \in 1..Len(s) |-> Ord(s[i])]

(* ------------------------------- values -------------------------------- *)
\* a Python value that is either absent, a str, or a JSON value that is not a str
NoneVal == [kind |-> "none", s |-> <<>>]
Str(s) == [kind |-> "str", s |-> s]
JsonNull == [kind |-> "null", s |-> <<>>]

\* a raised exception; status is 0 when the exception carries none
NoExc == [type |-> "none", status |-> 0]
Exc(type, status) == [type |-> type, status |-> status]

\* result of a call: a returned value or a raised exception
Return(v) == [ok |-> TRUE, val |-> v, exc |-> NoExc, log |-> FALSE]
Raise(e, log) == [ok |-> FALSE, val |-> NoneVal, exc |-> e, log |-> log]

(* ---------------------------- HTTP responses --------------------------- *)
Statuses == {200, 201, 300, 404, 429}

\* shape "ok": the body is JSON holding the expected field with value content;
\* "missing": JSON without that field; "notjson": the body is not JSON;
\* "neterr": the request raised before any response arrived
NoResp == [status |-> 0, shape |-> "none", content |-> NoneVal]
Response(status, shape, content) ==
    [status |-> status, shape |-> shape, content |-> content]
NetErr == [status |-> 0, shape |-> "neterr", content |-> NoneVal]

RespTexts == StringsOver({"a", NL}, MaxRespLen)

Responses(contents) ==
    {NetErr}
    \cup {Response(st, "ok", c) : st \in Statuses, c \in contents}
    \cup {Response(st, sh, NoneVal) : st \in Statuses, sh \in {"missing", "notjson"}}

\* requests.Response.raise_for_status(): HTTPError for 4xx and 5xx
RaiseForStatus(status) == status >= 400 /\ status < 600

\* ArticlesTranslator.translate_text: the part after the request is sent
ArticlesTranslateText(r) ==
    IF r.shape = "neterr" THEN Raise(Exc("ConnectionError", 0), TRUE)
    ELSE IF RaiseForStatus(r.status) THEN Raise(Exc("HTTPError", r.status), TRUE)
    ELSE IF r.shape = "notjson" THEN Raise(Exc("JSONDecodeError", 0), TRUE)
    ELSE IF r.shape = "missing" THEN Raise(Exc("KeyError", 0), FALSE)
    ELSE Return(r.content)

\* variant: every 2xx status is taken as success
DocumentsTranslateText_Any2xx(r) ==
    IF r.shape = "neterr" THEN Raise(Exc("ConnectionError", 0), FALSE)
    ELSE IF r.status >= 200 /\ r.status < 300
    THEN IF r.shape = "notjson" THEN Raise(Exc("JSONDecodeError", 0), FALSE)
         ELSE IF r.shape = "missing" THEN Raise(Exc("KeyError", 0), FALSE)
         ELSE Return(r.content)
    ELSE Raise(Exc("Translation error", r.status), FALSE)

\* DocumentsTranslator.translate_text: the part after the request is sent
DocumentsTranslateText(r) ==
    IF r.shape = "neterr" THEN Raise(Exc("ConnectionError", 0), FALSE)
    ELSE IF r.status = 200
    THEN IF r.shape = "notjson" THEN Raise(Exc("JSONDecodeError", 0), FALSE)
         ELSE IF r.shape = "missing" THEN Raise(Exc("KeyError", 0), FALSE)
         ELSE Return(r.content)
    ELSE Raise(Exc("Translation error", r.status), FALSE)

(* -------------------------------- HTML --------------------------------- *)
\* a parsed page is a forest of nodes; a text node has tag "#text" and no kids
TextNode(s) == [tag |-> "#text", text |-> s, kids |-> <<>>]
Element(t, k) == [tag |-> t, text |-> <<>>, kids |-> k]

HiddenTags == {"script", "style"}
NodeTexts == {<<"h">>, <<SP>>, <<SP, "e", SP>>}

\* forests with exactly n nodes; the parser gives a script or style element
\* at most one child, and that child is a text node
RECURSIVE Forests(_), Trees(_)
Forests(n) ==
    IF n = 0 THEN {<<>>}
    ELSE UNION {{<<tr>> \o rest : tr \in Trees(k), rest \in Forests(n - k)} : k \in 1..n}
Trees(k) ==
    IF k = 1
    THEN {TextNode(s) : s \in NodeTexts} \cup {Element(t, <<>>) : t \in HiddenTags \cup {"p"}}
    ELSE {Element("p", f) : f \in Forests(k - 1)}
         \cup (IF k = 2
               THEN {Element(t, <<TextNode(s)>>) : t \in HiddenTags, s \in NodeTexts}
               ELSE {})

Pages == UNION {Forests(n) : n \in 0..MaxNodes}

\* variant: only the top-level script and style elements are removed
Decompose_TopLevelOnly(forest) ==
    SelectSeq(forest, LAMBDA n : n.tag \notin HiddenTags)

\* for script in soup(["script", "style"]): script.decompose()
RECURSIVE Decompose(_)
Decompose(forest) ==
    IF forest = <<>> THEN <<>>
    ELSE LET n == Head(forest)
         IN  IF n.tag \in HiddenTags
             THEN Decompose(Tail(forest))
             ELSE <<[n EXCEPT !.kids = Decompose(n.kids)]>> \o Decompose(Tail(forest))

\* the strings of a forest in document order, each stripped, blank ones skipped
RECURSIVE StrippedStrings(_)
StrippedStrings(forest) ==
    IF forest = <<>> THEN <<>>
    ELSE LET n == Head(forest)
             own == IF n.tag = "#text" /\ Strip(n.text) /= <<>>
                    THEN <<Strip(n.text)>>
                    ELSE <<>>
         IN  own \o StrippedStrings(n.kids) \o StrippedStrings(Tail(forest))

\* soup.get_text(" ", strip=True)
GetText(forest, sep) == Join(sep, StrippedStrings(forest))

\* ArticlesTranslator.extract_text on the parsed body of a fetched page
ExtractText(page) == GetText(Decompose(page), SP)

\* outcome of the GET of extract_text
Fetch(status, shape, page) == [status |-> status, shape |-> shape, page |-> page]
Fetches ==
    {Fetch(0, "neterr", <<>>)} \cup {Fetch(st, "html", pg) : st \in Statuses, pg \in Pages}

\* ArticlesTranslator.extract_text: the part after the GET is sent
ArticlesExtractText(f) ==
    IF f.shape = "neterr" THEN Raise(Exc("ConnectionError", 0), TRUE)
    ELSE IF RaiseForStatus(f.status) THEN Raise(Exc("HTTPError", f.status), TRUE)
    ELSE Return(Str(ExtractText(f.page)))

(* ------------------------------ documents ------------------------------ *)
ParaTexts == StringsOver({"a", NL}, MaxParaLen)
Docs == SeqsUpTo(ParaTexts, MaxParas)

\* state of the file uploader; paragraphs are the texts of doc.paragraphs
NoFile == [present |-> FALSE, valid |-> FALSE, paragraphs |-> <<>>]
CorruptFile == [present |-> TRUE, valid |-> FALSE, paragraphs |-> <<>>]
WordFile(d) == [present |-> TRUE, valid |-> TRUE, paragraphs |-> d]
Files == {CorruptFile} \cup {WordFile(d) : d \in Docs}

\* variant: blank paragraphs are filtered out before the join
DocumentExtract_SkipBlank(f) ==
    IF ~f.valid THEN Raise(Exc("PackageNotFoundError", 0), FALSE)
    ELSE Return(Str(Join(NL, SelectSeq(f.paragraphs, LAMBDA p : p /= <<>>))))

\* Document(file) followed by the join of the paragraph texts
DocumentExtract(f) ==
    IF ~f.valid THEN Raise(Exc("PackageNotFoundError", 0), FALSE)
    ELSE Return(Str(Join(NL, f.paragraphs)))

\* variant: empty lines get no paragraph
BuildParagraphs_SkipBlank(t) == SelectSeq(Split(t, NL), LAMBDA l : l /= <<>>)

\* variant: the lines are taken as splitlines() gives them, which has no
\* segment for an empty text nor after a final newline
BuildParagraphs_SplitLines(t) ==
    LET ls == Split(t, NL)
    IN  IF ls[Len(ls)] = <<>> THEN SubSeq(ls, 1, Len(ls) - 1) ELSE ls

\* Document(); add_paragraph(line) for each line of translation.split("\n")
BuildParagraphs(t) == Split(t, NL)

(* ------------------------------- outputs ------------------------------- *)
NoDownload == [offered |-> FALSE, mime |-> "none", bytes |-> <<>>, paragraphs |-> <<>>]
MarkdownDownload(t) ==
    [offered |-> TRUE, mime |-> "text/markdown", bytes |-> Utf8(t), paragraphs |-> <<>>]
DocxDownload(ps) ==
    [offered |-> TRUE, mime |-> "docx", bytes |-> <<>>, paragraphs |-> ps]

NoError == [shown |-> FALSE, msg |-> "none", exc |-> NoExc]
ErrorOccurred(e) == [shown |-> TRUE, msg |-> "An error occurred", exc |-> e]
PleaseUpload == [shown |-> TRUE, msg |-> "Please upload a Word file.", exc |-> NoExc]

Resting == {"Idle", "Done", "Failed"}

(* -------------------------------- state -------------------------------- *)
Init ==
    /\ pipeline = "home"
    /\ pc = "Idle"
    /\ file = NoFile
    /\ text = NoneVal
    /\ request = NoneVal
    /\ resp = NoResp
    /\ translation = NoneVal
    /\ download = NoDownload
    /\ error = NoError
    /\ logged = NoExc
    /\ stages = <<>>
    /\ nFetch = 0
    /\ nPost = 0
    /\ html = <<>>

\* a rerun of the script keeps nothing of the previous run
Fresh ==
    /\ text' = NoneVal
    /\ request' = NoneVal
    /\ resp' = NoResp
    /\ translation' = NoneVal
    /\ download' = NoDownload
    /\ logged' = NoExc
    /\ nFetch' = 0
    /\ nPost' = 0

\* except Exception as e: st.error(...)
Fail(r) ==
    /\ pc' = "Failed"
    /\ error' = ErrorOccurred(r.exc)
    /\ logged' = IF r.log THEN r.exc ELSE logged

\* main: the sidebar choice renders one page; a page that is not rendered
\* keeps no widget state
Navigate(p) ==
    /\ pc \in Resting
    /\ p /= pipeline
    /\ pipeline' = p
    /\ pc' = "Idle"
    /\ file' = NoFile
    /\ Fresh
    /\ error' = NoError
    /\ stages' = <<>>
    /\ UNCHANGED html

\* st.file_uploader: a file is uploaded, the script reruns with no button pressed
UploadFile(f) ==
    /\ pipeline = "document"
    /\ pc \in Resting
    /\ ~file.present
    /\ file' = f
    /\ pc' = "Idle"
    /\ Fresh
    /\ error' = NoError
    /\ stages' = <<>>
    /\ UNCHANGED <<pipeline, html>>

\* st.file_uploader: the file is removed
RemoveFile ==
    /\ pipeline = "document"
    /\ pc \in Resting
    /\ file.present
    /\ file' = NoFile
    /\ pc' = "Idle"
    /\ Fresh
    /\ error' = NoError
    /\ stages' = <<>>
    /\ UNCHANGED <<pipeline, html>>

(* --------------------------- article pipeline -------------------------- *)
\* if st.button("Translate Article"): the run enters the try block
ClickTranslateArticle ==
    /\ pipeline = "article"
    /\ pc \in Resting
    /\ Fresh
    /\ error' = NoError
    /\ pc' = "Extracting"
    /\ stages' = <<"Extracting">>
    /\ UNCHANGED <<pipeline, file, html>>

\* text = translator.extract_text(url)
ArticleExtract ==
    /\ pipeline = "article"
    /\ pc = "Extracting"
    /\ nFetch' = nFetch + 1
    /\ \E f \in Fetches :
         LET r == ArticlesExtractText(f)
         IN  IF r.ok
             THEN /\ text' = r.val
                  /\ pc' = "Translating"
                  /\ stages' = Append(stages, "Translating")
                  /\ UNCHANGED <<error, logged>>
             ELSE /\ Fail(r)
                  /\ UNCHANGED <<text, stages>>
    /\ UNCHANGED <<pipeline, file, request, resp, translation, download, nPost, html>>

\* variant: a failed translation request is sent again
ArticleTranslate_Retry ==
    /\ pipeline = "article"
    /\ pc = "Translating"
    /\ request' = text
    /\ nPost' = nPost + 1
    /\ \E rs \in Responses({Str(t) : t \in RespTexts} \cup {JsonNull}) :
         LET r == ArticlesTranslateText(rs)
         IN  /\ resp' = rs
             /\ IF r.ok
                THEN /\ translation' = r.val
                     /\ pc' = "Building"
                     /\ stages' = Append(stages, "Building")
                     /\ UNCHANGED <<error, logged>>
                ELSE /\ pc' = "Translating"
                     /\ UNCHANGED <<translation, stages, error, logged>>
    /\ UNCHANGED <<pipeline, file, text, download, nFetch, html>>

\* translation = translator.translate_text(text, languages[target_language])
ArticleTranslate ==
    /\ pipeline = "article"
    /\ pc = "Translating"
    /\ request' = text
    /\ nPost' = nPost + 1
    /\ \E rs \in Responses({Str(t) : t \in RespTexts} \cup {JsonNull}) :
         LET r == ArticlesTranslateText(rs)
         IN  /\ resp' = rs
             /\ IF r.ok
                THEN /\ translation' = r.val
                     /\ pc' = "Building"
                     /\ stages' = Append(stages, "Building")
                     /\ UNCHANGED <<error, logged>>
                ELSE /\ Fail(r)
                     /\ UNCHANGED <<translation, stages>>
    /\ UNCHANGED <<pipeline, file, text, download, nFetch, html>>

\* st.markdown(translation); st.download_button(data=translation.encode("utf-8"))
ArticleBuild ==
    /\ pipeline = "article"
    /\ pc = "Building"
    /\ IF translation.kind = "str"
       THEN /\ download' = MarkdownDownload(translation.s)
            /\ pc' = "Done"
            /\ UNCHANGED <<error, logged>>
       ELSE /\ Fail(Raise(Exc("AttributeError", 0), FALSE))
            /\ UNCHANGED download
    /\ UNCHANGED <<pipeline, file, text, request, resp, translation, stages,
                   nFetch, nPost, html>>

(* -------------------------- document pipeline -------------------------- *)
\* variant: the file is not looked at before the pipeline starts
ClickTranslate_NoGuard ==
    /\ pipeline = "document"
    /\ pc \in Resting
    /\ Fresh
    /\ error' = NoError
    /\ pc' = "Extracting"
    /\ stages' = <<"Extracting">>
    /\ UNCHANGED <<pipeline, file, html>>

\* if st.button("Translate"): if file is not None: ... else: st.error(...)
ClickTranslate ==
    /\ pipeline = "document"
    /\ pc \in Resting
    /\ Fresh
    /\ IF file.present
       THEN /\ pc' = "Extracting"
            /\ stages' = <<"Extracting">>
            /\ error' = NoError
       ELSE /\ pc' = "Failed"
            /\ stages' = <<>>
            /\ error' = PleaseUpload
    /\ UNCHANGED <<pipeline, file, html>>

\* doc = Document(file); original_text = "\n".join(...)
DocExtract ==
    /\ pipeline = "document"
    /\ pc = "Extracting"
    /\ nFetch' = nFetch + 1
    /\ LET r == DocumentExtract(file)
       IN  IF r.ok
           THEN /\ text' = r.val
                /\ pc' = "Translating"
                /\ stages' = Append(stages, "Translating")
                /\ UNCHANGED <<error, logged>>
           ELSE /\ Fail(r)
                /\ UNCHANGED <<text, stages>>
    /\ UNCHANGED <<pipeline, file, request, resp, translation, download, nPost, html>>

\* translation = translator.translate_text(original_text, source, target)
DocTranslate ==
    /\ pipeline = "document"
    /\ pc = "Translating"
    /\ request' = text
    /\ nPost' = nPost + 1
    /\ \E rs \in Responses({Str(t) : t \in RespTexts} \cup {text, JsonNull}) :
         LET r == DocumentsTranslateText(rs)
         IN  /\ resp' = rs
             /\ IF r.ok
                THEN /\ translation' = r.val
                     /\ pc' = "Building"
                     /\ stages' = Append(stages, "Building")
                     /\ UNCHANGED <<error, logged>>
                ELSE /\ Fail(r)
                     /\ UNCHANGED <<translation, stages>>
    /\ UNCHANGED <<pipeline, file, text, download, nFetch, html>>

\* translated_doc = Document(); add_paragraph per line; save; st.download_button
DocBuild ==
    /\ pipeline = "document"
    /\ pc = "Building"
    /\ IF translation.kind = "str"
       THEN /\ download' = DocxDownload(BuildParagraphs(translation.s))
            /\ pc' = "Done"
            /\ UNCHANGED <<error, logged>>
       ELSE /\ Fail(Raise(Exc("AttributeError", 0), FALSE))
            /\ UNCHANGED download
    /\ UNCHANGED <<pipeline, file, text, request, resp, translation, stages,
                   nFetch, nPost, html>>

Next ==
    \/ \E p \in {"home", "article", "document"} : Navigate(p)
    \/ \E f \in Files : UploadFile(f)
    \/ RemoveFile
    \/ ClickTranslateArticle
    \/ ArticleExtract
    \/ ArticleTranslate
    \/ ArticleBuild
    \/ ClickTranslate
    \/ DocExtract
    \/ DocTranslate
    \/ DocBuild

Spec == Init /\ [][Next]_vars

(* ---------------- extract_text as a function of the page --------------- *)
InitHtml ==
    /\ html \in Pages
    /\ pipeline = "article"
    /\ pc = "Extracting"
    /\ file = NoFile
    /\ text = NoneVal
    /\ request = NoneVal
    /\ resp = NoResp
    /\ translation = NoneVal
    /\ download = NoDownload
    /\ error = NoError
    /\ logged = NoExc
    /\ stages = <<"Extracting">>
    /\ nFetch = 0
    /\ nPost = 0

\* the GET of extract_text answered 200 with the page html
HtmlExtract ==
    /\ pc = "Extracting"
    /\ nFetch = 0
    /\ nFetch' = 1
    /\ LET r == ArticlesExtractText(Fetch(200, "html", html))
       IN  /\ text' = r.val
           /\ pc' = "Translating"
           /\ stages' = Append(stages, "Translating")
    /\ UNCHANGED <<pipeline, file, request, resp, translation, download, error,
                   logged, nPost, html>>

NextHtml == HtmlExtract

SpecHtml == InitHtml /\ [][NextHtml]_vars

(* ------------------------------ properties ----------------------------- *)
StageNames == {"Extracting", "Translating", "Building"}
StagePrefixes ==
    {<<>>, <<"Extracting">>, <<"Extracting", "Translating">>,
     <<"Extracting", "Translating", "Building">>}

Is2xx(status) == status >= 200 /\ status <= 299
Received(r) == r.shape \notin {"none", "neterr"}

RECURSIVE Count(_, _)
Count(c, s) ==
    IF s = <<>> THEN 0 ELSE (IF Head(s) = c THEN 1 ELSE 0) + Count(c, Tail(s))

Contains(c, s) == \E i \in 1..Len(s) : s[i] = c

\* number of characters before paragraph i in the newline-joined text
RECURSIVE Offset(_, _)
Offset(ps, i) == IF i = 1 THEN 0 ELSE Offset(ps, i - 1) + Len(ps[i - 1]) + 1

\* the text nodes of a forest in document order, each with the flag
\* "has a script or style ancestor"
RECURSIVE Flatten(_, _)
Flatten(forest, hidden) ==
    IF forest = <<>> THEN <<>>
    ELSE LET n == Head(forest)
         IN  (IF n.tag = "#text" THEN <<[text |-> n.text, hidden |-> hidden]>> ELSE <<>>)
             \o Flatten(n.kids, hidden \/ n.tag \in HiddenTags)
             \o Flatten(Tail(forest), hidden)

VisibleTexts(forest) ==
    LET shown == SelectSeq(Flatten(forest, FALSE),
                           LAMBDA x : ~x.hidden /\ Strip(x.text) /= <<>>)
    IN  [i \in 1..Len(shown) |-> Strip(shown[i].text)]

\* C1: in every invocation the stages started form a prefix of Extracting,
\* Translating, Building, each started at most once; there is at most one
\* source fetch or parse and at most one translation request; a stage is left
\* only for the next stage or for Failed, Building only for Done or Failed; an
\* error is shown exactly in Failed, and after Failed nothing more of that
\* invocation runs: the next step starts a run with fresh counters.
C1_StageInv ==
    /\ stages \in StagePrefixes
    /\ nFetch <= 1
    /\ nPost <= 1
    /\ pc \in StageNames => stages /= <<>> /\ stages[Len(stages)] = pc
    /\ pc = "Done" => Len(stages) = 3 /\ nFetch = 1 /\ nPost = 1
    /\ error.shown <=> pc = "Failed"
    /\ nPost = 1 => nFetch = 1
C1_StageStep ==
    /\ pc = "Extracting" => pc' \in {"Translating", "Failed"}
    /\ pc = "Translating" => pc' \in {"Building", "Failed"}
    /\ pc = "Building" => pc' \in {"Done", "Failed"}
    /\ pc \in StageNames /\ pc' = "Failed" => stages' = stages
    /\ pc \in {"Done", "Failed"} =>
         /\ nFetch' = 0 /\ nPost' = 0
         /\ pc' \in {"Idle", "Extracting", "Failed"}
         /\ Len(stages') <= 1
C1_Stages == []C1_StageInv /\ [][C1_StageStep]_vars
C1_Witness ==
    /\ pipeline = "article"
    /\ pc = "Failed"
    /\ stages = <<"Extracting", "Translating">>
    /\ nPost = 1
    /\ resp.status = 429

\* C2: an invocation whose translation call received a status outside
\* 200-299 offers no download and, once it has ended, shows an error.
C2_NoArtifactOnNon2xx ==
    Received(resp) /\ ~Is2xx(resp.status) =>
        /\ ~download.offered
        /\ pc /= "Done"
        /\ pc \in Resting => error.shown

\* C3: in the article pipeline translate_text returns a value only for a 2xx
\* response that holds choices[0].message.content, and then returns exactly
\* that content; every other response makes the call fail.
C3_ArticleTranslateStrict ==
    pipeline = "article" /\ Received(resp) =>
        IF Is2xx(resp.status) /\ resp.shape = "ok"
        THEN translation = resp.content /\ Len(stages) = 3
        ELSE translation = NoneVal /\ pc = "Failed" /\ Len(stages) = 2

\* C4: in the document pipeline translate_text returns a value only for
\* status 200 with translations[0].text present, and then returns exactly that
\* text; every other status fails with an error carrying the status, and a
\* 200 response of another shape fails too.
C4_DocumentTranslateStrict ==
    pipeline = "document" /\ Received(resp) =>
        IF resp.status = 200 /\ resp.shape = "ok"
        THEN translation = resp.content /\ Len(stages) = 3
        ELSE /\ translation = NoneVal
             /\ pc = "Failed"
             /\ Len(stages) = 2
             /\ resp.status /= 200 =>
                  error.exc = Exc("Translation error", resp.status)
C4_Witness ==
    /\ pipeline = "document"
    /\ pc = "Failed"
    /\ resp = Response(201, "ok", Str(<<"a">>))
    /\ error.exc.status = 201

\* C5: the document offered for download has one paragraph per
\* newline-delimited segment of the translated text, K = 1 + the number of
\* newlines, in the same order: no paragraph holds a newline and the paragraphs
\* joined by newlines give back the translated text.
C5_BuilderParagraphs ==
    pipeline = "document" /\ download.offered =>
        /\ Len(download.paragraphs) = 1 + Count(NL, translation.s)
        /\ \A i \in 1..Len(download.paragraphs) :
             ~Contains(NL, download.paragraphs[i])
        /\ Join(NL, download.paragraphs) = translation.s
C5_Witness ==
    /\ pipeline = "document"
    /\ download.offered
    /\ translation.s = <<NL, "a">>
    /\ download.paragraphs = << <<>>, <<"a">> >>

\* C6: the text sent to the translation provider by the document pipeline
\* holds every one of the N paragraph texts of the file, blank ones too, in
\* source order, each followed by one newline except the last, and nothing
\* else.
C6_ExtractJoin ==
    pipeline = "document" /\ request.kind = "str" =>
        LET ps == file.paragraphs
            n == Len(ps)
        IN  /\ Len(request.s) = IF n = 0 THEN 0 ELSE Offset(ps, n) + Len(ps[n])
            /\ \A i \in 1..n :
                 /\ SubSeq(request.s, Offset(ps, i) + 1, Offset(ps, i) + Len(ps[i])) = ps[i]
                 /\ i < n => request.s[Offset(ps, i) + Len(ps[i]) + 1] = NL
C6_Witness ==
    /\ pipeline = "document"
    /\ file.paragraphs = << <<>>, <<"a">> >>
    /\ request = Str(<<NL, "a">>)

\* C7: the text extracted from a page is the trimmed non-blank text nodes that
\* have no script or style ancestor, in document order, joined by single
\* spaces; no text node under a script or style element contributes to it.
C7_ExtractVisible ==
    pc = "Translating" =>
        text = Str(Join(SP, VisibleTexts(html)))
C7_Witness ==
    /\ pc = "Translating"
    /\ html = <<TextNode(<<SP, "e", SP>>),
                Element("p", <<Element("script", <<TextNode(<<"h">>)>>)>>)>>
    /\ text = Str(<<"e">>)

\* C9 as stated: whenever the provider returned the text it was sent, the
\* rebuilt document has the paragraphs of the source document.
C9_RoundTripAll ==
    pipeline = "document" /\ download.offered /\ translation = text =>
        download.paragraphs = file.paragraphs

\* C9 as amended: whenever the provider returned the text it was sent and the
\* source document has at least one paragraph and no paragraph text holding a
\* newline, the rebuilt document has the paragraphs of the source document.
C9_RoundTrip ==
    /\ pipeline = "document" /\ download.offered /\ translation = text
    /\ file.paragraphs /= <<>>
    /\ \A i \in 1..Len(file.paragraphs) : ~Contains(NL, file.paragraphs[i])
    => download.paragraphs = file.paragraphs
C9_Witness ==
    /\ pipeline = "document"
    /\ download.offered
    /\ translation = text
    /\ file.paragraphs = << <<"a">>, <<>> >>
    /\ download.paragraphs = << <<"a">>, <<>> >>

\* C10: on the document page, while no file is uploaded an invocation runs no
\* stage, sends nothing and offers nothing, and ends in Failed showing
\* 'Please upload a Word file.'; a translation request exists only in an
\* invocation whose file was present and parsed.
C10_UploadGuard ==
    pipeline = "document" =>
        /\ ~file.present =>
             /\ stages = <<>> /\ nFetch = 0 /\ nPost = 0
             /\ request = NoneVal /\ ~download.offered
             /\ pc \in {"Idle", "Failed"}
             /\ pc = "Failed" => error = PleaseUpload
        /\ error = PleaseUpload => ~file.present
        /\ nPost > 0 \/ request /= NoneVal =>
             /\ file.present /\ file.valid
             /\ text = Str(Join(NL, file.paragraphs))
             /\ Len(stages) >= 2
C10_Witness ==
    /\ pipeline = "document"
    /\ pc = "Failed"
    /\ ~file.present
    /\ error = PleaseUpload

====
